---- MODULE Spec2Model ----
(***************************************************************************)
(* Model of the audio distortion pipeline of resemble-enhance:             *)
(*   data/distorter/custom.py     RandomRIR, RandomGaussianNoise,          *)
(*                                RandomWhamNoise                          *)
(*   data/distorter/distorter.py  Distorter                                *)
(*                                                                         *)
(* Waveforms are sequences of integers: one unit is 0.01 of full scale, so *)
(* 0.99 is 99 and 0.98 is 98.  Mixing gains (alpha) are in percent.        *)
(* Energies are sums of squares of these integers.  Divisions round        *)
(* toward zero.                                                            *)
(***************************************************************************)
EXTENDS Integers, Sequences, FiniteSets, TLC

VARIABLES
    fs,         \* the file system: directory -> ordered listing of files
    resampler,  \* behaviour of librosa.resample: [drift, ripple]
    inst,       \* effect instances: id -> the fields set by the constructor
    cache,      \* id -> the cached_property slot: [filled, paths]
    walks,      \* id -> number of times walk_paths ran for this instance
    call,       \* what the latest apply call of an effect did and returned
    cfg,        \* Distorter: the constructor arguments [hp, training, mode]
    pipeline,   \* Distorter: the effect tree built by __init__
    pc,         \* Distorter.apply: "idle", "running" or "done"
    stack,      \* Distorter.apply: combinator frames still to run
    entered     \* Distorter.apply: ids of the nodes applied so far in this call

vars == <<fs, resampler, inst, cache, walks, call, cfg, pipeline, pc, stack, entered>>

effectVars == <<fs, resampler, inst, cache, walks, call>>
distorterVars == <<cfg, pipeline, pc, stack, entered>>

---------------------------------------------------------------------------
(* Bounds of the model *)

\* longest input waveform
MaxLen == 12
\* largest deviation of a resampled length from ceil(n * target / orig)
MaxDrift == 12
\* largest overshoot a resampled sample may have over the sample it interpolates
Ripple == 5
\* longest input waveform in the two-instance catalog specification
CatalogLen == 2

(* Program constants *)

DefaultRirRate == 44000
ClipThreshold == 99
ClipTarget == 98
LengthTolerance == 10
AlphaLo == 80
AlphaHi == 100
\* 1e-7, in the unit of Energy7 (1e-7)
Epsilon == 1
\* Energy7 counts energy in units of 1e-7: one squared sample unit is 1e-4
EnergyScale == 1000
\* a sample that is not a number (0/0 or 0 * inf in floating point)
NaN == 1000000

---------------------------------------------------------------------------
(* Arithmetic helpers *)

Abs(x) == IF x < 0 THEN -x ELSE x

Max(a, b) == IF a >= b THEN a ELSE b

Min(a, b) == IF a <= b THEN a ELSE b

\* division rounding toward zero, b > 0
TDiv(a, b) == IF a >= 0 THEN a \div b ELSE -((-a) \div b)

Ceil(a, b) == (a + b - 1) \div b

\* np.max(np.abs(wav)), wav not empty
PeakAbs(wav) ==
    LET S == {Abs(wav[k]) : k \in 1..Len(wav)}
    IN  CHOOSE x \in S : \A y \in S : y <= x

RECURSIVE SumSqUpTo(_, _)
SumSqUpTo(wav, k) ==
    IF k = 0 THEN 0 ELSE wav[k] * wav[k] + SumSqUpTo(wav, k - 1)

\* np.sum(wav ** 2)
SumSq(wav) == SumSqUpTo(wav, Len(wav))

RECURSIVE SqrtIter(_, _)
SqrtIter(n, x) ==
    LET y == (x + n \div x) \div 2
    IN  IF y >= x THEN x ELSE SqrtIter(n, y)

\* floor(sqrt(n)), n >= 0
ISqrt(n) == IF n = 0 THEN 0 ELSE SqrtIter(n, n)

RECURSIVE FracDigits(_, _, _, _)
FracDigits(q, r, den, digits) ==
    IF digits = 0 THEN q
    ELSE FracDigits(q * 10 + (r * 10) \div den, (r * 10) % den, den, digits - 1)

\* floor(10^4 * num / den), den > 0, computed by long division
Ratio4(num, den) == FracDigits(num \div den, num % den, den, 4)

Silent(wav) == \A k \in 1..Len(wav) : wav[k] = 0

---------------------------------------------------------------------------
(* Inputs *)

Shapes == {"silent", "alt", "half"}

Wave(len, shape) ==
    [k \in 1..len |->
        CASE shape = "silent" -> 0
          [] shape = "alt"    -> IF k % 2 = 1 THEN 100 ELSE -100
          [] OTHER            -> 50]

Inputs(maxLen) == {Wave(len, s) : len \in 1..maxLen, s \in Shapes}

Rates == {22000, DefaultRirRate}

---------------------------------------------------------------------------
(* The file system and the asset files *)

None == "None"

Dirs == {"assets"}

File(name, suffix) == [name |-> name, suffix |-> suffix]

Listings ==
    { <<>>,
      <<File("readme", ".txt")>>,
      <<File("b", ".npy"), File("n", ".wav"), File("a", ".npy"), File("m", ".wav")>> }

\* np.squeeze(np.load(path)): the impulse response stored in a file
LoadRir(path) ==
    CASE path.name = "a" -> <<2, 1>>
      [] path.name = "b" -> <<1, 0, -1>>
      [] OTHER           -> <<1>>

\* librosa.load(path, sr=None, mono=True): the clip and its native rate
LoadNoise(path) ==
    CASE path.name = "n" -> [wav |-> <<50, -50, 50>>, sr |-> DefaultRirRate]
      [] path.name = "m" -> [wav |-> <<100, 0, -100, 0>>, sr |-> 22000]
      [] OTHER           -> [wav |-> <<10>>, sr |-> DefaultRirRate]

\* walk_paths(dir, suffix): the files of the directory with the suffix, in order
WalkPaths(files, dir, suffix) ==
    SelectSeq(files[dir], LAMBDA f : f.suffix = suffix)

---------------------------------------------------------------------------
(* librosa.resample(y, orig_sr, target_sr): a function of its arguments,   *)
(* fixed for a run by rs = [drift, ripple].                                *)

ResampleLen(n, orig, target, rs) ==
    IF orig = target THEN n
    ELSE Max(1, Ceil(n * target, orig) + rs.drift)

Resample(y, orig, target, rs) ==
    IF orig = target THEN y
    ELSE LET n == Len(y)
             m == ResampleLen(n, orig, target, rs)
         IN  [k \in 1..m |->
                y[Min(n, ((k - 1) * n) \div m + 1)]
                + (IF k % 2 = 1 THEN rs.ripple ELSE -rs.ripple)]

---------------------------------------------------------------------------
(* What an apply call did.  Every apply fills the same record. *)

NoPath == File(None, None)

Result ==
    [ out       |-> <<>>,       \* the returned waveform
      raised    |-> FALSE,      \* the call ended with an exception
      resamples |-> 0,          \* calls of librosa.resample
      loads     |-> 0,          \* files loaded
      draws     |-> 0,          \* draws from random / np.random
      warned    |-> FALSE,      \* _logger.warning was called
      asset     |-> NoPath,     \* the file that was loaded
      conv      |-> <<>>,       \* RIR: the convolved signal, before normalization
      norm      |-> <<>>,       \* RIR: the signal after normalization
      back      |-> <<>>,       \* RIR: the signal resampled back to sr
      clip      |-> <<>>,       \* Wham: the noise clip at rate sr
      start     |-> 0,          \* Wham: the offset used to pad or crop
      buf       |-> <<>>,       \* Wham, Gaussian: the noise before energy matching
      dividend  |-> 0,          \* numerator of the energy quotient
      divisor   |-> 0,          \* denominator of the energy quotient
      divided   |-> FALSE,      \* the energy quotient was computed
      alpha     |-> 0 ]         \* the mixing gain drawn

NoCall == Result @@ [id |-> None, wav |-> <<>>, sr |-> 0, walked |-> FALSE]

---------------------------------------------------------------------------
(* Energy-matched mixing, shared by the two noise effects *)

\* noise * np.sqrt(wav_energy / noise_energy), noise_energy > 0.
\* A silent noise stays silent whatever the (finite) factor is.
ScaleNoise(noise, wav_energy, noise_energy) ==
    IF Silent(noise) THEN noise
    ELSE LET factor == ISqrt(Ratio4(wav_energy, noise_energy))
         IN  [k \in 1..Len(noise) |-> TDiv(noise[k] * factor, 100)]

\* wav * alpha + noise * (1 - alpha)
Mix(wav, noise, alpha) ==
    [k \in 1..Len(wav) |-> TDiv(wav[k] * alpha + noise[k] * (100 - alpha), 100)]

\* random.uniform(*alpha_range): the ends of the range stand for the range
AlphaChoices(alpha_range) == {alpha_range[1], alpha_range[2]}

---------------------------------------------------------------------------
(* RandomRIR *)

RandomRIR(rir_dir, deterministic) ==
    [ kind          |-> "RandomRIR",
      dir           |-> rir_dir,
      rate          |-> DefaultRirRate,
      suffix        |-> ".npy",
      deterministic |-> deterministic,
      alpha_range   |-> <<0, 0>> ]

\* the cached_property rir_paths, computed
RirPaths(self, files) ==
    IF self.dir = None THEN <<>> ELSE WalkPaths(files, self.dir, self.suffix)

\* _sample_rir: the paths it may pick; NoPath stands for returning None
SampleRir(self, paths) ==
    IF Len(paths) = 0 THEN {NoPath}
    ELSE IF self.deterministic THEN {paths[1]}
    ELSE {paths[k] : k \in 1..Len(paths)}

\* the guard of apply's early return
RirCatalogEmptyAlwaysFalse(paths) == FALSE

RirCatalogEmpty(paths) == Len(paths) = 0

RECURSIVE ConvSum(_, _, _, _)
ConvSum(wav, rir, j, i) ==
    IF i > Len(wav) THEN 0
    ELSE (IF j - i + 2 >= 1 /\ j - i + 2 <= Len(rir)
          THEN wav[i] * rir[j - i + 2] ELSE 0)
         + ConvSum(wav, rir, j, i + 1)

\* signal.convolve(wav, rir, mode="same"): the full linear convolution
\* (index j = 0 .. n+m-2), cut to the n samples around its centre
Convolve(wav, rir) ==
    [k \in 1..Len(wav) |-> ConvSum(wav, rir, k - 1 + (Len(rir) - 1) \div 2, 1)]

NormalizeNoRescale(wav) == wav

\* if actlev > 0.99: wav = (wav / actlev) * 0.98
Normalize(wav) ==
    LET actlev == PeakAbs(wav)
    IN  IF actlev > ClipThreshold
        THEN [k \in 1..Len(wav) |-> TDiv(wav[k] * ClipTarget, actlev)]
        ELSE wav

LengthWarningOffByOne(length, m) == Abs(length - m) >= LengthTolerance

\* if abs(length - len(wav)) > 10: warning
LengthWarning(length, m) == Abs(length - m) > LengthTolerance

ReconcileNoTruncate(wav, length) ==
    IF length > Len(wav)
    THEN wav \o [k \in 1..(length - Len(wav)) |-> 0]
    ELSE wav

\* np.pad(wav, (0, length - len(wav))) or wav[:length]
Reconcile(wav, length) ==
    IF length > Len(wav)
    THEN wav \o [k \in 1..(length - Len(wav)) |-> 0]
    ELSE IF length < Len(wav) THEN SubSeq(wav, 1, length)
    ELSE wav

\* RandomRIR.apply with the catalog `paths` and the path _sample_rir picked
RIRApply(self, paths, rs, wav, sr, rir_path) ==
    IF RirCatalogEmpty(paths) THEN [Result EXCEPT !.out = wav]
    ELSE
      LET length == Len(wav)
          up     == Resample(wav, sr, self.rate, rs)
          draws  == IF Len(paths) > 0 /\ ~self.deterministic THEN 1 ELSE 0
      IN  IF rir_path = NoPath
          THEN \* convolve(wav, None) raises
               [Result EXCEPT !.raised = TRUE, !.resamples = 1]
          ELSE
            LET rir  == LoadRir(rir_path)
                conv == Convolve(up, rir)
                norm == Normalize(conv)
                back == Resample(norm, self.rate, sr, rs)
            IN  [Result EXCEPT
                    !.out = Reconcile(back, length),
                    !.resamples = 2,
                    !.loads = 1,
                    !.draws = draws,
                    !.warned = LengthWarning(length, Len(back)),
                    !.asset = rir_path,
                    !.conv = conv,
                    !.norm = norm,
                    !.back = back]

---------------------------------------------------------------------------
(* RandomGaussianNoise *)

RandomGaussianNoise ==
    [ kind          |-> "RandomGaussianNoise",
      dir           |-> None,
      rate          |-> 0,
      suffix        |-> None,
      deterministic |-> FALSE,
      alpha_range   |-> <<AlphaLo, AlphaHi>> ]

\* np.random.randn(*wav.shape): the draws the model takes
Randn(len) == {Wave(len, s) : s \in Shapes}

GaussQuotientSwapped(wav_energy, noise_energy) ==
    [dividend |-> noise_energy, divisor |-> wav_energy]

\* wav_energy / noise_energy
GaussQuotient(wav_energy, noise_energy) ==
    [dividend |-> wav_energy, divisor |-> noise_energy]

\* RandomGaussianNoise.apply with the noise and the gain it drew
GaussApply(self, wav, sr, noise, alpha) ==
    LET noise_energy == SumSq(noise)
        wav_energy   == SumSq(wav)
        q            == GaussQuotient(wav_energy, noise_energy)
        scaled       == IF q.divisor = 0
                        THEN [k \in 1..Len(noise) |-> NaN]
                        ELSE ScaleNoise(noise, q.dividend, q.divisor)
    IN  [Result EXCEPT
            !.out = IF q.divisor = 0
                    THEN [k \in 1..Len(wav) |-> NaN]
                    ELSE Mix(wav, scaled, alpha),
            !.draws = 2,
            !.buf = noise,
            !.dividend = q.dividend,
            !.divisor = q.divisor,
            !.divided = TRUE,
            !.alpha = alpha]

---------------------------------------------------------------------------
(* RandomWhamNoise *)

RandomWhamNoise(noise_dir, deterministic) ==
    [ kind          |-> "RandomWhamNoise",
      dir           |-> noise_dir,
      rate          |-> 0,
      suffix        |-> ".wav",
      deterministic |-> deterministic,
      alpha_range   |-> <<AlphaLo, AlphaHi>> ]

\* the cached_property noise_paths, computed
NoisePaths(self, files) ==
    IF self.dir = None THEN <<>> ELSE WalkPaths(files, self.dir, self.suffix)

\* _sample_noise: the paths it may pick; NoPath stands for returning None, None
SampleNoise(self, paths) ==
    IF Len(paths) = 0 THEN {NoPath}
    ELSE IF self.deterministic THEN {paths[1]}
    ELSE {paths[k] : k \in 1..Len(paths)}

\* the clip _sample_noise loaded, resampled to sr when its rate differs
NoiseClip(path, sr, rs) ==
    LET loaded == LoadNoise(path)
    IN  IF loaded.sr # sr THEN Resample(loaded.wav, loaded.sr, sr, rs)
        ELSE loaded.wav

StartChoicesPastEnd(self, n, length) ==
    IF n = length \/ self.deterministic THEN {0}
    ELSE 0..Max(n, length)

\* start = 0 if self.deterministic else random.randint(0, |len(wav) - len(noise)|)
StartChoices(self, n, length) ==
    IF n = length \/ self.deterministic THEN {0}
    ELSE 0..Abs(length - n)

\* the noise padded into zeros at start, or cropped from start, to `length`
AlignNoise(noise, length, start) ==
    IF Len(noise) < length
    THEN [k \in 1..length |->
            IF k > start /\ k <= start + Len(noise) THEN noise[k - start] ELSE 0]
    ELSE IF Len(noise) > length
    THEN [k \in 1..length |-> IF start + k <= Len(noise) THEN noise[start + k] ELSE 0]
    ELSE noise

\* np.sum(x ** 2) + 1e-7, in units of 1e-7
Energy7(wav) == SumSq(wav) * EnergyScale + Epsilon

\* RandomWhamNoise.apply with the catalog `paths`, the path _sample_noise
\* picked, and the offset and the gain it drew
WhamApply(self, paths, rs, wav, sr, path, start, alpha) ==
    IF Len(paths) = 0 \/ path = NoPath THEN [Result EXCEPT !.out = wav]
    ELSE
      LET loaded == LoadNoise(path)
          clip   == NoiseClip(path, sr, rs)
          buf    == AlignNoise(clip, Len(wav), start)
          noise_energy == Energy7(buf)
          wav_energy   == Energy7(wav)
          scaled == ScaleNoise(buf, wav_energy, noise_energy)
      IN  [Result EXCEPT
              !.out = Mix(wav, scaled, alpha),
              !.resamples = IF loaded.sr # sr THEN 1 ELSE 0,
              !.loads = 1,
              !.draws = (IF self.deterministic THEN 0 ELSE 1)
                        + (IF self.deterministic \/ Len(clip) = Len(wav) THEN 0 ELSE 1)
                        + 1,
              !.asset = path,
              !.clip = clip,
              !.start = start,
              !.buf = buf,
              !.dividend = wav_energy,
              !.divisor = noise_energy,
              !.divided = TRUE,
              !.alpha = alpha]

---------------------------------------------------------------------------
(* The actions on effect instances *)

Unfilled == [filled |-> FALSE, paths |-> <<>>]

CatalogRecomputed(i, computed) == computed

\* reading a cached_property: the cached value, or the value computed now
Catalog(i, computed) == IF cache[i].filled THEN cache[i].paths ELSE computed

\* the state after a read of the cached_property of instance i
ReadCatalog(i, computed) ==
    /\ cache' = [cache EXCEPT ![i] = [filled |-> TRUE, paths |-> Catalog(i, computed)]]
    /\ walks' = [walks EXCEPT
                    ![i] = IF cache[i].filled \/ inst[i].dir = None THEN @ ELSE @ + 1]

Walked(i) == ~cache[i].filled /\ inst[i].dir # None

Called(i, wav, sr, walked, result) ==
    result @@ [id |-> i, wav |-> wav, sr |-> sr, walked |-> walked]

ApplyRIR(i, maxLen) ==
    /\ call.id = None
    /\ inst[i].kind = "RandomRIR"
    /\ \E wav \in Inputs(maxLen), sr \in Rates :
         LET self  == inst[i]
             paths == Catalog(i, RirPaths(self, fs))
         IN  /\ ReadCatalog(i, RirPaths(self, fs))
             /\ \E rir_path \in SampleRir(self, paths) :
                  call' = Called(i, wav, sr, Walked(i),
                                 RIRApply(self, paths, resampler, wav, sr, rir_path))
    /\ UNCHANGED <<fs, resampler, inst>>
    /\ UNCHANGED distorterVars

ApplyGauss(i, maxLen) ==
    /\ call.id = None
    /\ inst[i].kind = "RandomGaussianNoise"
    /\ \E wav \in Inputs(maxLen), sr \in Rates :
         \E noise \in Randn(Len(wav)), alpha \in AlphaChoices(inst[i].alpha_range) :
            call' = Called(i, wav, sr, FALSE, GaussApply(inst[i], wav, sr, noise, alpha))
    /\ UNCHANGED <<fs, resampler, inst, cache, walks>>
    /\ UNCHANGED distorterVars

ApplyWham(i, maxLen) ==
    /\ call.id = None
    /\ inst[i].kind = "RandomWhamNoise"
    /\ \E wav \in Inputs(maxLen), sr \in Rates :
         LET self  == inst[i]
             paths == Catalog(i, NoisePaths(self, fs))
         IN  /\ ReadCatalog(i, NoisePaths(self, fs))
             /\ \E path \in SampleNoise(self, paths) :
                  LET n == IF path = NoPath THEN Len(wav)
                           ELSE Len(NoiseClip(path, sr, resampler))
                  IN  \E start \in StartChoices(self, n, Len(wav)),
                         alpha \in AlphaChoices(self.alpha_range) :
                        call' = Called(i, wav, sr, Walked(i),
                                       WhamApply(self, paths, resampler, wav, sr,
                                                 path, start, alpha))
    /\ UNCHANGED <<fs, resampler, inst>>
    /\ UNCHANGED distorterVars

\* apply has returned and the caller has consumed the waveform: the
\* pipeline is synchronous, the next call starts after this one is over
Release ==
    /\ call.id # None
    /\ call' = NoCall
    /\ UNCHANGED <<fs, resampler, inst, cache, walks>>
    /\ UNCHANGED distorterVars

\* the environment: files appear in and vanish from the asset directory
FsChange ==
    /\ \E d \in Dirs, l \in Listings :
         /\ l # fs[d]
         /\ fs' = [fs EXCEPT ![d] = l]
    /\ UNCHANGED <<resampler, inst, cache, walks, call>>
    /\ UNCHANGED distorterVars

---------------------------------------------------------------------------
(* Specifications of the effects *)

Resamplers == [drift : {-MaxDrift, 0, MaxDrift}, ripple : {0, Ripple}]

EffectDirs == Dirs \cup {None}

Effects ==
    {RandomRIR(d, det) : d \in EffectDirs, det \in BOOLEAN}
    \cup {RandomWhamNoise(d, det) : d \in EffectDirs, det \in BOOLEAN}
    \cup {RandomGaussianNoise}

NoDistorter ==
    /\ cfg = None
    /\ pipeline = None
    /\ pc = "idle"
    /\ stack = <<>>
    /\ entered = <<>>

InitEffects(ids) ==
    /\ fs \in [Dirs -> Listings]
    /\ resampler \in Resamplers
    /\ inst \in [ids -> Effects]
    /\ cache = [i \in ids |-> Unfilled]
    /\ walks = [i \in ids |-> 0]
    /\ call = NoCall
    /\ NoDistorter

\* one effect instance, applied to every input
Init == InitEffects({"e1"})

Next ==
    \/ \E i \in DOMAIN inst : ApplyRIR(i, MaxLen)
    \/ \E i \in DOMAIN inst : ApplyGauss(i, MaxLen)
    \/ \E i \in DOMAIN inst : ApplyWham(i, MaxLen)
    \/ Release

Spec == Init /\ [][Next]_vars

\* two effect instances over a directory that changes
InitCatalog ==
    /\ InitEffects({"e1", "e2"})
    /\ resampler = [drift |-> 0, ripple |-> 0]

NextCatalog ==
    \/ \E i \in DOMAIN inst : ApplyRIR(i, CatalogLen)
    \/ \E i \in DOMAIN inst : ApplyGauss(i, CatalogLen)
    \/ \E i \in DOMAIN inst : ApplyWham(i, CatalogLen)
    \/ Release
    \/ FsChange

SpecCatalog == InitCatalog /\ [][NextCatalog]_vars

---------------------------------------------------------------------------
(* Distorter.__init__: the effect tree *)

Leaf(name, type, deterministic) ==
    [ name |-> name, type |-> type, deterministic |-> deterministic,
      children |-> <<>>, p |-> <<>> ]

Chain(name, children) ==
    [ name |-> name, type |-> "Chain", deterministic |-> FALSE,
      children |-> children, p |-> <<>> ]

\* p = <<>> stands for the default weights of Choice
Choice(name, children, p) ==
    [ name |-> name, type |-> "Choice", deterministic |-> FALSE,
      children |-> children, p |-> p ]

Permutation(name, children) ==
    [ name |-> name, type |-> "Permutation", deterministic |-> FALSE,
      children |-> children, p |-> <<>> ]

If(flag, node) == IF flag THEN <<node>> ELSE <<>>

TrainingEffectsWhamAlways(hp) ==
       If(hp.enable_rir, Leaf("rir", "RandomRIR", FALSE))
    \o If(hp.enable_reverb, Leaf("reverb", "RandomReverb", FALSE))
    \o If(hp.enable_gaussian_noise, Leaf("gaussian_noise", "RandomGaussianNoise", FALSE))
    \o <<Leaf("wham_noise", "RandomWhamNoise", FALSE)>>
    \o If(hp.enable_overdrive, Leaf("overdrive", "RandomOverdrive", FALSE))
    \o If(hp.enable_equalizer, Leaf("equalizer", "RandomEqualizer", FALSE))
    \o If(hp.enable_filters,
          Choice("filters",
                 << Leaf("lowpass", "RandomLowpassDistorter", FALSE),
                    Leaf("bandpass", "RandomBandpassDistorter", FALSE) >>,
                 <<>>))

\* the list `effects` of the training branch
TrainingEffects(hp) ==
       If(hp.enable_rir, Leaf("rir", "RandomRIR", FALSE))
    \o If(hp.enable_reverb, Leaf("reverb", "RandomReverb", FALSE))
    \o If(hp.enable_gaussian_noise, Leaf("gaussian_noise", "RandomGaussianNoise", FALSE))
    \o If(hp.enable_wham_noise, Leaf("wham_noise", "RandomWhamNoise", FALSE))
    \o If(hp.enable_overdrive, Leaf("overdrive", "RandomOverdrive", FALSE))
    \o If(hp.enable_equalizer, Leaf("equalizer", "RandomEqualizer", FALSE))
    \o If(hp.enable_filters,
          Choice("filters",
                 << Leaf("lowpass", "RandomLowpassDistorter", FALSE),
                    Leaf("bandpass", "RandomBandpassDistorter", FALSE) >>,
                 <<>>))

EvalEffectsReverbRandom(hp) ==
       If(hp.enable_rir, Leaf("rir", "RandomRIR", TRUE))
    \o If(hp.enable_reverb, Leaf("reverb", "RandomReverb", FALSE))

\* the list `effects` of the evaluation branch
EvalEffects(hp) ==
       If(hp.enable_rir, Leaf("rir", "RandomRIR", TRUE))
    \o If(hp.enable_reverb, Leaf("reverb", "RandomReverb", TRUE))

\* Distorter(hp, training, mode): the Chain it initialises itself as
Distorter(hp, training, mode) ==
    IF training
    THEN LET permutation == Permutation("permutation", TrainingEffects(hp))
         IN  IF mode = "denoiser"
             THEN Chain("distorter", <<permutation>>)
             ELSE Chain("distorter",
                        << Choice("choice",
                                  <<permutation, Chain("clean", <<>>)>>,
                                  <<80, 20>>) >>)
    ELSE Chain("distorter", EvalEffects(hp))

---------------------------------------------------------------------------
(* Distorter.apply: Chain, Choice and Permutation run their children *)

Frame(order, rest) == [order |-> order, rest |-> rest]

Top == stack[Len(stack)]

Without(seq, k) == SubSeq(seq, 1, k - 1) \o SubSeq(seq, k + 1, Len(seq))

\* the children the frame on top of the stack may run next
NextChildren ==
    IF Top.order = "any" THEN 1..Len(Top.rest)
    ELSE IF Len(Top.rest) > 0 THEN {1} ELSE {}

\* the stack after child k of the top frame was taken, with `pushed` on top
Taken(k, pushed) ==
    SubSeq(stack, 1, Len(stack) - 1)
    \o <<Frame(Top.order, Without(Top.rest, k))>> \o pushed

\* the alternatives a Choice may draw: those of weight above zero
Alternatives(node) ==
    {k \in 1..Len(node.children) : node.p = <<>> \/ node.p[k] > 0}

DistorterApply ==
    /\ pc = "idle"
    /\ pc' = "running"
    /\ entered' = <<pipeline.name>>
    /\ stack' = <<Frame("fixed", pipeline.children)>>
    /\ UNCHANGED <<cfg, pipeline>>
    /\ UNCHANGED effectVars

Running == pc = "running" /\ Len(stack) > 0

\* a leaf effect is applied
EnterLeaf ==
    /\ Running
    /\ \E k \in NextChildren :
         /\ Top.rest[k].type \notin {"Chain", "Choice", "Permutation"}
         /\ entered' = Append(entered, Top.rest[k].name)
         /\ stack' = Taken(k, <<>>)
    /\ UNCHANGED <<cfg, pipeline, pc>>
    /\ UNCHANGED effectVars

\* Chain.apply: its children, in their order
EnterChain ==
    /\ Running
    /\ \E k \in NextChildren :
         /\ Top.rest[k].type = "Chain"
         /\ entered' = Append(entered, Top.rest[k].name)
         /\ stack' = Taken(k, <<Frame("fixed", Top.rest[k].children)>>)
    /\ UNCHANGED <<cfg, pipeline, pc>>
    /\ UNCHANGED effectVars

\* Permutation.apply: all its children, in an order drawn at the call
EnterPermutation ==
    /\ Running
    /\ \E k \in NextChildren :
         /\ Top.rest[k].type = "Permutation"
         /\ entered' = Append(entered, Top.rest[k].name)
         /\ stack' = Taken(k, <<Frame("any", Top.rest[k].children)>>)
    /\ UNCHANGED <<cfg, pipeline, pc>>
    /\ UNCHANGED effectVars

\* Choice.apply: one of its children, drawn by the weights
EnterChoice ==
    /\ Running
    /\ \E k \in NextChildren :
         /\ Top.rest[k].type = "Choice"
         /\ \E a \in Alternatives(Top.rest[k]) :
              /\ entered' = Append(entered, Top.rest[k].name)
              /\ stack' = Taken(k, <<Frame("fixed", <<Top.rest[k].children[a]>>)>>)
    /\ UNCHANGED <<cfg, pipeline, pc>>
    /\ UNCHANGED effectVars

\* a combinator has run its children and returns
Leave ==
    /\ Running
    /\ Len(Top.rest) = 0
    /\ stack' = SubSeq(stack, 1, Len(stack) - 1)
    /\ UNCHANGED <<cfg, pipeline, pc, entered>>
    /\ UNCHANGED effectVars

\* Distorter.apply returns
DistorterReturn ==
    /\ pc = "running"
    /\ Len(stack) = 0
    /\ pc' = "done"
    /\ UNCHANGED <<cfg, pipeline, stack, entered>>
    /\ UNCHANGED effectVars

\* the caller has consumed the waveform; the next call may start
DistorterRelease ==
    /\ pc = "done"
    /\ pc' = "idle"
    /\ entered' = <<>>
    /\ UNCHANGED <<cfg, pipeline, stack>>
    /\ UNCHANGED effectVars

HParams ==
    [ enable_rir : BOOLEAN, enable_reverb : BOOLEAN,
      enable_gaussian_noise : BOOLEAN, enable_wham_noise : BOOLEAN,
      enable_overdrive : BOOLEAN, enable_equalizer : BOOLEAN,
      enable_filters : BOOLEAN ]

Modes == {"denoiser", "enhancer", "other"}

InitDistorter ==
    /\ cfg \in [hp : HParams, training : BOOLEAN, mode : Modes]
    /\ pipeline = Distorter(cfg.hp, cfg.training, cfg.mode)
    /\ pc = "idle"
    /\ stack = <<>>
    /\ entered = <<>>
    /\ fs = [d \in Dirs |-> <<>>]
    /\ resampler = [drift |-> 0, ripple |-> 0]
    /\ inst = <<>>
    /\ cache = <<>>
    /\ walks = <<>>
    /\ call = NoCall

NextDistorter ==
    \/ DistorterApply
    \/ EnterLeaf
    \/ EnterChain
    \/ EnterPermutation
    \/ EnterChoice
    \/ Leave
    \/ DistorterReturn
    \/ DistorterRelease

SpecDistorter == InitDistorter /\ [][NextDistorter]_vars

---------------------------------------------------------------------------
(* Properties of the effects *)

Did == call.id # None

Self == inst[call.id]

IsRIR == Did /\ Self.kind = "RandomRIR"

IsWham == Did /\ Self.kind = "RandomWhamNoise"

IsGauss == Did /\ Self.kind = "RandomGaussianNoise"

\* the call went past the early return on an empty catalog
Processed == Did /\ ~call.raised /\ (IF IsRIR THEN call.loads = 1 ELSE call.divided)

\* C1: every apply of RandomRIR, RandomGaussianNoise and RandomWhamNoise that
\* returns, returns a waveform with exactly as many samples as its input,
\* whatever the catalog, the asset and the resampled lengths are.
LengthInvariance ==
    (Did /\ ~call.raised) => Len(call.out) = Len(call.wav)

\* a RandomRIR call whose resampled signal was longer than the input by more
\* than the tolerance, and was cut back to the input length
LengthInvarianceWitness ==
    /\ IsRIR /\ Processed
    /\ Len(call.back) > Len(call.wav) + LengthTolerance
    /\ Len(call.out) = Len(call.wav)

\* C2: with an empty catalog (no directory, or no matching file in it) a
\* RandomRIR or RandomWhamNoise returns its input unchanged, raises nothing,
\* and resamples, loads and draws nothing.
EmptyCatalogIdentity ==
    ( /\ IsRIR \/ IsWham
      /\ \/ Self.dir = None
         \/ Len(cache[call.id].paths) = 0
         \/ call.walked /\ WalkPaths(fs, Self.dir, Self.suffix) = <<>> )
    => /\ ~call.raised
       /\ call.out = call.wav
       /\ call.resamples = 0
       /\ call.loads = 0
       /\ call.draws = 0

\* a RandomRIR over a directory that holds a file, but none with its suffix
EmptyCatalogIdentityWitness ==
    /\ IsRIR
    /\ Self.dir # None
    /\ Len(fs[Self.dir]) > 0
    /\ call.walked
    /\ Len(cache[call.id].paths) = 0
    /\ Len(call.wav) > 1
    /\ call.out = call.wav

\* the waveforms apply may return for one input, over every state of the
\* random source
Outputs(self, paths, wav, sr) ==
    IF self.kind = "RandomRIR"
    THEN {RIRApply(self, paths, resampler, wav, sr, rir_path).out :
            rir_path \in SampleRir(self, paths)}
    ELSE UNION {
           {WhamApply(self, paths, resampler, wav, sr, path, start, alpha).out :
              start \in StartChoices(self, Len(NoiseClip(path, sr, resampler)), Len(wav)),
              alpha \in AlphaChoices(self.alpha_range)} :
           path \in SampleNoise(self, paths) \ {NoPath} }

\* C3: a deterministic RandomRIR or RandomWhamNoise over a non-empty catalog
\* returns, for the input of the call, the same waveform whatever the random
\* source yields: an equal instance applied to the same input returns what
\* this call returned.
Determinism ==
    ( /\ IsRIR \/ IsWham
      /\ Self.deterministic
      /\ Len(cache[call.id].paths) > 0 )
    => \A out \in Outputs(Self, cache[call.id].paths, call.wav, call.sr) :
          out = call.out

\* C6 as stated: when the convolved signal peaked above 0.99, the returned
\* waveform peaks at 0.98 at most.
NoClipOutput ==
    (IsRIR /\ Processed /\ PeakAbs(call.conv) > ClipThreshold)
    => PeakAbs(call.out) <= ClipTarget

\* C6, amended: when the convolved signal peaked above 0.99, the normalized
\* signal that is resampled back peaks at 0.98 at most; the returned waveform
\* peaks no higher than the resampled one, and at 0.98 at most when sr is the
\* processing rate, where resampling back changes nothing.
NoClipNormalized ==
    (IsRIR /\ Processed /\ PeakAbs(call.conv) > ClipThreshold)
    => /\ PeakAbs(call.norm) <= ClipTarget
       /\ PeakAbs(call.out) <= PeakAbs(call.back)
       /\ call.sr = Self.rate => PeakAbs(call.out) <= ClipTarget

\* a call at another rate than the processing rate whose convolved signal
\* peaked at 2.0 and was scaled to peak at 0.98
NoClipNormalizedWitness ==
    /\ IsRIR /\ Processed
    /\ call.sr # Self.rate
    /\ PeakAbs(call.conv) > 2 * ClipThreshold
    /\ PeakAbs(call.norm) = ClipTarget

\* C7 as stated: on a silent, non-empty input RandomGaussianNoise divides by
\* the zero energy of the input.
GaussSilentDividesByZero ==
    (IsGauss /\ Len(call.wav) > 0 /\ Silent(call.wav))
    => call.divided /\ call.divisor = 0

\* C7, amended: on a silent, non-empty input the zero energy of the input is
\* the dividend; the divisor is the energy of the drawn noise, with no epsilon
\* added, so it is zero only when the drawn noise is all zero; otherwise the
\* factor is zero and the call returns silence.
GaussSilentDividend ==
    (IsGauss /\ Len(call.wav) > 0 /\ Silent(call.wav))
    => /\ call.divided
       /\ call.dividend = 0
       /\ call.divisor = SumSq(call.buf)
       /\ call.divisor = 0 <=> Silent(call.buf)
       /\ call.divisor # 0 => call.out = call.wav

\* a silent input of three samples mixed with a noise that is not silent
GaussSilentDividendWitness ==
    /\ IsGauss
    /\ Len(call.wav) = 3
    /\ Silent(call.wav)
    /\ ~Silent(call.buf)
    /\ call.divisor > 0
    /\ Silent(call.out)

\* C8: RandomRIR returns the resampled signal padded with zeros on the right
\* when it is shorter than the input, cut on the right when it is longer, as
\* it is when the lengths agree; it warns exactly when the lengths differ by
\* more than 10, and returns all the same.
RirReconciliation ==
    (IsRIR /\ Processed)
    => LET L == Len(call.wav)
           M == Len(call.back)
       IN  /\ Len(call.out) = L
           /\ \A k \in 1..L :
                 call.out[k] = IF k <= M THEN call.back[k] ELSE 0
           /\ call.warned <=> (L - M > 10 \/ M - L > 10)

\* a call that warned and padded: the resampled signal was more than 10
\* samples short
RirReconciliationWitness ==
    /\ IsRIR /\ Processed
    /\ Len(call.wav) - Len(call.back) > 10
    /\ call.warned
    /\ call.out[Len(call.wav)] = 0
    /\ call.out[1] # 0

\* C9: the noise RandomWhamNoise mixes has the length of the input.  A shorter
\* clip lies whole in a zero buffer at start, 0 <= start <= L - n; a longer
\* clip is cut to the window [start, start + L), 0 <= start <= n - L; start
\* is 0 when deterministic; a clip of the same length is used as it is.
WhamAlignment ==
    (IsWham /\ Processed)
    => LET L == Len(call.wav)
           n == Len(call.clip)
           s == call.start
       IN  /\ Len(call.buf) = L
           /\ Self.deterministic => s = 0
           /\ n < L => /\ 0 <= s /\ s <= L - n
                       /\ \A k \in 1..L :
                            call.buf[k] = IF s < k /\ k <= s + n
                                          THEN call.clip[k - s] ELSE 0
           /\ n > L => /\ 0 <= s /\ s <= n - L
                       /\ \A k \in 1..L : call.buf[k] = call.clip[s + k]
           /\ n = L => call.buf = call.clip

\* a clip of length 3 in a deterministic call on 10 samples: it occupies
\* samples 0-2 and samples 3-9 are zero
WhamAlignmentWitness ==
    /\ IsWham /\ Processed
    /\ Self.deterministic
    /\ Len(call.clip) = 3
    /\ Len(call.wav) = 10
    /\ call.start = 0
    /\ SubSeq(call.buf, 1, 3) = call.clip
    /\ \A k \in 4..10 : call.buf[k] = 0
    /\ \A k \in 1..3 : call.buf[k] # 0

---------------------------------------------------------------------------
(* The asset catalog *)

\* what a walk of the directory of instance i returns now
Listed(i) ==
    IF inst[i].dir = None THEN <<>>
    ELSE WalkPaths(fs, inst[i].dir, inst[i].suffix)

HasCatalog(i) == inst[i].kind \in {"RandomRIR", "RandomWhamNoise"}

\* this step is an apply call of instance i
Applies(i) == call.id = None /\ call'.id = i

\* C10: the directory of a RandomRIR or RandomWhamNoise is not walked before
\* the first apply, is walked by the first apply, and is never walked again;
\* later calls use the catalog of the first whatever the directory then
\* holds, so an instance that found nothing stays an identity; apply changes
\* no other field of the instance, and nothing of another instance.
CatalogLazyCached ==
    [][ \A i \in DOMAIN inst :
          /\ ~cache[i].filled => walks[i] = 0
          /\ walks'[i] <= 1
          /\ inst'[i] = inst[i]
          /\ cache[i].filled => cache'[i] = cache[i] /\ walks'[i] = walks[i]
          /\ ~Applies(i) => cache'[i] = cache[i] /\ walks'[i] = walks[i]
          /\ (Applies(i) /\ HasCatalog(i) /\ ~cache[i].filled)
                => /\ cache'[i] = [filled |-> TRUE, paths |-> Listed(i)]
                   /\ walks'[i] = IF inst[i].dir = None THEN 0 ELSE 1
                   /\ call'.walked <=> inst[i].dir # None
          /\ (Applies(i) /\ cache[i].filled)
                => /\ ~call'.walked
                   /\ Len(cache[i].paths) = 0 => call'.out = call'.wav
                   /\ Len(cache[i].paths) > 0 => call'.asset.name # None
      ]_vars

\* two instances of one class over one directory hold different catalogs:
\* the one just applied found nothing at its first call and is an identity
\* although the directory holds assets now, which the other instance uses
CatalogLazyCachedWitness ==
    /\ Did /\ ~call.walked
    /\ cache[call.id].filled
    /\ walks[call.id] = 1
    /\ Len(cache[call.id].paths) = 0
    /\ Len(Listed(call.id)) > 0
    /\ call.out = call.wav
    /\ \E j \in DOMAIN inst :
          /\ j # call.id
          /\ inst[j].kind = Self.kind
          /\ inst[j].dir = Self.dir
          /\ cache[j].filled
          /\ Len(cache[j].paths) > 0

---------------------------------------------------------------------------
(* Properties of the Distorter *)

EffectNames ==
    << "rir", "reverb", "gaussian_noise", "wham_noise", "overdrive", "equalizer",
       "filters" >>

FlagOf(name) ==
    CASE name = "rir"            -> "enable_rir"
      [] name = "reverb"         -> "enable_reverb"
      [] name = "gaussian_noise" -> "enable_gaussian_noise"
      [] name = "wham_noise"     -> "enable_wham_noise"
      [] name = "overdrive"      -> "enable_overdrive"
      [] name = "equalizer"      -> "enable_equalizer"
      [] OTHER                   -> "enable_filters"

Range(seq) == {seq[k] : k \in 1..Len(seq)}

NoRepeat(seq) == \A j, k \in 1..Len(seq) : seq[j] = seq[k] => j = k

Names(nodes) == [k \in 1..Len(nodes) |-> nodes[k].name]

Types(nodes) == [k \in 1..Len(nodes) |-> nodes[k].type]

\* the enabled effects, in the order of the flags
Enabled == SelectSeq(EffectNames, LAMBDA n : cfg.hp[FlagOf(n)])

\* the top-level effects applied so far in this call
TopLevel == SelectSeq(entered, LAMBDA n : n \in Range(EffectNames))

AllFlags == \A n \in Range(EffectNames) : cfg.hp[FlagOf(n)]

\* C4: an evaluation Distorter is a Chain of the deterministic RIR effect (if
\* enabled) followed by the deterministic reverb effect (if enabled) and of
\* nothing else, whatever mode and the other flags are; a call applies these
\* in that order, and nothing when both are disabled.
EvaluationPipeline ==
    ~cfg.training
    => LET c == pipeline.children
       IN  /\ pipeline.type = "Chain"
           /\ Types(c) = (IF cfg.hp.enable_rir THEN <<"RandomRIR">> ELSE <<>>)
                         \o (IF cfg.hp.enable_reverb THEN <<"RandomReverb">> ELSE <<>>)
           /\ \A k \in 1..Len(c) : c[k].deterministic /\ c[k].children = <<>>
           /\ Range(entered) \subseteq {pipeline.name} \cup Range(Names(c))
           /\ pc = "done" => entered = <<pipeline.name>> \o Names(c)

\* an evaluation Distorter with every flag set, in mode "denoiser", has
\* applied its two effects
EvaluationPipelineWitness ==
    /\ ~cfg.training
    /\ AllFlags
    /\ cfg.mode = "denoiser"
    /\ pc = "done"
    /\ entered = <<"distorter", "rir", "reverb">>

\* C5: a training Distorter permutes the enabled effects, listed in the order
\* of the flags.  No call applies an effect twice or an effect that is not
\* enabled; a finished call has applied every enabled effect once, or, when
\* mode is not "denoiser", possibly none of them, through the empty Chain.
TrainingAllOrNothing ==
    cfg.training
    => LET top == pipeline.children[1]
           permutation == IF cfg.mode = "denoiser" THEN top ELSE top.children[1]
       IN  /\ Len(pipeline.children) = 1
           /\ permutation.type = "Permutation"
           /\ Names(permutation.children) = Enabled
           /\ cfg.mode # "denoiser"
                => /\ top.type = "Choice"
                   /\ top.p = <<80, 20>>
                   /\ Len(top.children) = 2
                   /\ top.children[2] = Chain("clean", <<>>)
           /\ NoRepeat(entered)
           /\ Range(TopLevel) \subseteq Range(Enabled)
           /\ pc = "done"
                => \/ /\ Range(TopLevel) = Range(Enabled)
                      /\ "permutation" \in Range(entered)
                      /\ "filters" \in Range(entered)
                           <=> ("lowpass" \in Range(entered)
                                  /\ "bandpass" \notin Range(entered))
                               \/ ("bandpass" \in Range(entered)
                                  /\ "lowpass" \notin Range(entered))
                   \/ /\ cfg.mode # "denoiser"
                      /\ entered = <<"distorter", "choice", "clean">>

\* an "enhancer" call with every flag set that applied all seven effects,
\* the filters first and the RIR last
TrainingAllOrNothingWitness ==
    /\ cfg.training
    /\ cfg.mode = "enhancer"
    /\ AllFlags
    /\ pc = "done"
    /\ Len(TopLevel) = 7
    /\ TopLevel[1] = "filters"
    /\ TopLevel[7] = "rir"
    /\ "bandpass" \in Range(entered)

====
